---- MODULE Spec2Model ----
(***************************************************************************)
(* Model of the review classification service of fashion-store-ai-review:  *)
(* src/src/models/review_classifier.py (ReviewClassifier, the module-level *)
(* classifier and its convenience functions) together with the artifact    *)
(* files under models/ that the training scripts write, and the text and   *)
(* feature pipelines of the training scripts (src/retrain_models.py,       *)
(* src/src/models/train_models.py, src/src/models/train_model.py), and the  *)
(* web application in front of it: the routes of src/src/app/routes and    *)
(* the helpers of src/src/utils/auth.py and src/src/utils/helpers.py.      *)
(***************************************************************************)
EXTENDS Integers, Sequences, FiniteSets, TLC

VARIABLES
    disk,        \* models/: artifact file -> content (0: missing or unreadable)
    classifier,  \* the module-level ReviewClassifier instance
    ret,         \* the last completed call of the service and what it returned
    everLoaded,  \* history: some load_models call has returned True
    runs,        \* training runs that reached their save block so far
    saveIdx,     \* index in SaveOrder of the artifact being dumped (0: none)
    saveOpen,    \* the artifact being dumped is opened (truncated) for writing
    thread,      \* per thread of the server process: position and locals
    firstCall,   \* history: the first predict_single call kept for comparison
    calc,        \* the last application of a function of the text pipelines
    session,     \* the Flask session of the one browser of the web model
    users,       \* db.users: the sequence of user documents, _id = position
    reviews,     \* db.products: the reviews list of the one product
    resp,        \* the last completed web request and its response
    accepted,    \* history: submit_review requests that stored a pending review
    regs,        \* per concurrent register request: position and locals
    run          \* the training run in progress: script, stage, files written

vars == <<disk, classifier, ret, everLoaded, runs, saveIdx, saveOpen, thread,
          firstCall, calc, session, users, reviews, resp, accepted, regs, run>>

\* ------------------------------------------------------------------ bounds

MaxRuns == 1
MaxBatch == 2

\* ------------------------------------------------------------------ values

\* Python's None where an int prediction is expected.
None == -1

\* predict_proba values are k / ProbDen.
ProbDen == 12

\* The empty dict {}.
EmptyDict == [k \in {} |-> 0]

\* ------------------------------------------------------------------ text

Letters == {"a", "b", "A", "B"}
Whitespace == {" ", "\t"}

\* str.lower() on one character
LowerChar(ch) == CASE ch = "A" -> "a" [] ch = "B" -> "b" [] OTHER -> ch

Lower(s) == [i \in 1..Len(s) |-> LowerChar(s[i])]

KeepsChar(ch) == ch \in Letters \/ ch \in Whitespace

\* re.sub(r'[^a-zA-Z\s]', '', text)
RemoveSpecialCharsDropNothing(s) == s

RemoveSpecialChars(s) == SelectSeq(s, KeepsChar)

\* the runs of whitespace left as they are
CollapseWhitespaceNot(s) == s

\* re.sub(r'\s+', ' ', text)
RECURSIVE CollapseWhitespace(_)
CollapseWhitespace(s) ==
    IF s = <<>> THEN <<>>
    ELSE IF s[1] \in Whitespace
         THEN IF Len(s) > 1 /\ s[2] \in Whitespace
              THEN CollapseWhitespace(Tail(s))
              ELSE <<" ">> \o CollapseWhitespace(Tail(s))
         ELSE <<s[1]>> \o CollapseWhitespace(Tail(s))

RECURSIVE LStrip(_)
LStrip(s) == IF s # <<>> /\ s[1] \in Whitespace THEN LStrip(Tail(s)) ELSE s

RECURSIVE RStrip(_)
RStrip(s) ==
    IF s # <<>> /\ s[Len(s)] \in Whitespace
    THEN RStrip(SubSeq(s, 1, Len(s) - 1))
    ELSE s

\* str.strip()
Strip(s) == RStrip(LStrip(s))

\* A value that is not there: None, or the NaN pandas reads for an empty cell.
Missing == <<"NaN">>

\* ReviewClassifier.preprocess_text
preprocess_text(text) ==
    IF text = <<>> \/ text = Missing THEN <<>>
    ELSE Strip(CollapseWhitespace(RemoveSpecialChars(Lower(text))))

\* f"{title}{review_text}".strip(): the blank between the two forgotten
CombinedTextNoSeparator(title, review_text) == Strip(title \o review_text)

\* f"{title} {review_text}".strip()
CombinedText(title, review_text) == Strip(title \o <<" ">> \o review_text)

\* ------------------------------------------------------------------ bundle

\* The attributes load_models assigns, in the order it assigns them.  The
\* attribute nlp is read through models/spacy_model.txt; every other one
\* from models/<attribute>.joblib.
LoadOrder == << "lr_model", "rf_model", "svm_model", "bow_vectorizer",
                "tfidf_vectorizer", "scaler_embeddings", "scaler_weighted", "nlp" >>

Artifacts == {LoadOrder[i] : i \in 1..Len(LoadOrder)}

\* The artifacts retrain_models.py dumps, in the order it dumps them.
SaveOrder == << "lr_model", "rf_model", "svm_model", "bow_vectorizer",
                "tfidf_vectorizer", "scaler_embeddings", "scaler_weighted" >>

\* Content of models/spacy_model.txt as train_models.py writes it: 'en_core_web_md'.
SpacyModelName == 1

\* ReviewClassifier.__init__ before its call of load_models
NewClassifier ==
    [lr_model |-> 0, rf_model |-> 0, svm_model |-> 0, bow_vectorizer |-> 0,
     tfidf_vectorizer |-> 0, scaler_embeddings |-> 0, scaler_weighted |-> 0,
     nlp |-> 0, models_loaded |-> FALSE]

\* Number of artifacts load_models reads before the first one that raises.
RECURSIVE ReadablePrefix(_, _)
ReadablePrefix(d, i) ==
    IF i > Len(LoadOrder) \/ d[LoadOrder[i]] = 0 THEN i - 1
    ELSE ReadablePrefix(d, i + 1)

IndexOf(a) == CHOOSE i \in 1..Len(LoadOrder) : LoadOrder[i] = a

\* The flag after a load attempt that read k artifacts.
FlagAfterLoadSetEarly(self, k) == TRUE

FlagAfterLoad(self, k) ==
    IF k = Len(LoadOrder) THEN TRUE ELSE self.models_loaded

\* ReviewClassifier.load_models: the instance afterwards.
LoadedClassifier(self, d) ==
    LET k == ReadablePrefix(d, 1) IN
    [f \in DOMAIN self |->
        IF f = "models_loaded" THEN FlagAfterLoad(self, k)
        ELSE IF IndexOf(f) <= k THEN d[f] ELSE self[f]]

\* ReviewClassifier.load_models: the value returned.
LoadReturns(d) == ReadablePrefix(d, 1) = Len(LoadOrder)

\* ------------------------------------------------------------------ features

\* spaCy refuses texts longer than Language.max_length (scaled down).
NlpMaxLength == 3

Count(s, ch) == Cardinality({i \in 1..Len(s) : s[i] = ch})

CharWeight(ch) == CASE ch = "a" -> 1 [] ch = "b" -> 2 [] OTHER -> 0

RECURSIVE TextCode(_)
TextCode(s) == IF s = <<>> THEN 0 ELSE CharWeight(s[1]) + TextCode(Tail(s))

\* The tokens spaCy makes of a preprocessed text: its words.
RECURSIVE Tokens(_)
Tokens(text) ==
    IF text = <<>> THEN <<>>
    ELSE IF text[1] = " " THEN Tokens(Tail(text))
    ELSE LET rest == Tokens(Tail(text))
         IN IF Len(text) > 1 /\ text[2] # " "
            THEN <<(<<text[1]>> \o Head(rest))>> \o Tail(rest)
            ELSE <<(<<text[1]>>)>> \o rest

\* A fitted transformer or model applied without being there (None) raises.
Raised == [raised |-> TRUE]

\* self.bow_vectorizer.transform([processed_text])
BowTransform(vectorizer, text) ==
    IF vectorizer = 0 THEN Raised
    ELSE [raised |-> FALSE, by |-> vectorizer, x |-> Count(text, "a")]

\* self.tfidf_vectorizer.transform(texts)
TfidfTransform(vectorizer, text) ==
    IF vectorizer = 0 THEN Raised
    ELSE [raised |-> FALSE, by |-> vectorizer, x |-> Count(text, "b")]

\* ReviewClassifier.get_spacy_embeddings on one text.  doc.vector is the
\* mean of the token vectors: the vector is x / n, x the sum of the token
\* vectors and n the number of tokens.
get_spacy_embeddings(nlp, text) ==
    IF nlp = 0 \/ Len(text) > NlpMaxLength THEN Raised
    ELSE [raised |-> FALSE, by |-> nlp, x |-> TextCode(text),
          n |-> Len(Tokens(text))]

\* ReviewClassifier.get_tfidf_weighted_embeddings on one text: the TF-IDF
\* matrix is computed and dropped, the plain embeddings are returned.
get_tfidf_weighted_embeddings(tfidf_vectorizer, nlp, text) ==
    IF TfidfTransform(tfidf_vectorizer, text).raised THEN Raised
    ELSE get_spacy_embeddings(nlp, text)

\* StandardScaler.transform
ScalerTransform(scaler, features) ==
    IF scaler = 0 \/ features.raised THEN Raised
    ELSE [raised |-> FALSE, by |-> scaler, x |-> features.x]

\* model.predict(features)[0] of the three classifiers
LrPredict(model, f) == (f.x + model + f.by) % 2
RfPredict(model, f) == ((f.x \div 2) + model + f.by) % 2
SvmPredict(model, f) == (f.x + model + f.by + model * f.by) % 2

\* model.predict_proba(features)[0][1] of the three classifiers, in 1/ProbDen
LrPredictProba(model, f) == 9 * LrPredict(model, f) + 3 * (f.x % 2)
RfPredictProba(model, f) == 9 * RfPredict(model, f) + 3 * ((f.x + model) % 2)
SvmPredictProba(model, f) == 3 * ((f.x + model + f.by) % 5)

\* every prediction labelled "Recommended"
LabelAlwaysRecommended(pred) == "Recommended"

Label(pred) == IF pred = 1 THEN "Recommended" ELSE "Not Recommended"

\* ------------------------------------------------------------------ fusion

CountOf(predictions, v) ==
    Cardinality({i \in 1..Len(predictions) : predictions[i] = v})

\* max(predictions): the key argument forgotten
EnsemblePredMaxValue(predictions) ==
    CHOOSE v \in {predictions[i] : i \in 1..Len(predictions)} :
        \A w \in {predictions[i] : i \in 1..Len(predictions)} : v >= w

\* max(set(predictions), key=predictions.count): the first element of the
\* set (small ints iterate in ascending order) with the largest count
EnsemblePred(predictions) ==
    LET S == {predictions[i] : i \in 1..Len(predictions)} IN
    CHOOSE v \in S :
        \A w \in S : \/ CountOf(predictions, v) > CountOf(predictions, w)
                     \/ /\ CountOf(predictions, v) = CountOf(predictions, w)
                        /\ v <= w

\* the vote of retrain_models.py: 1 if sum(predictions) >= 2 else 0
RetrainEnsemblePred(predictions) ==
    IF predictions[1] + predictions[2] + predictions[3] >= 2 THEN 1 ELSE 0

\* the probability of the class that won the vote
EnsembleProbOfWinner(predictions, lr_prob, rf_prob, svm_prob) ==
    IF EnsemblePred(predictions) = 1
    THEN (lr_prob + rf_prob + svm_prob) \div 3
    ELSE ProbDen - ((lr_prob + rf_prob + svm_prob) \div 3)

\* ensemble_prob = (lr_prob + rf_prob + svm_prob) / 3, computed next to the
\* vote over predictions
EnsembleProb(predictions, lr_prob, rf_prob, svm_prob) ==
    (lr_prob + rf_prob + svm_prob) \div 3

\* len(set(predictions)) == 1 replaced by agreement of the first two models
ConsensusOfTwo(predictions) == predictions[1] = predictions[2]

\* len(set(predictions)) == 1
Consensus(predictions) ==
    Cardinality({predictions[i] : i \in 1..Len(predictions)}) = 1

IndividualResult(pred, prob) ==
    [prediction |-> pred, confidence |-> prob, label |-> Label(pred)]

\* The value predict_single returns at its three early exits.
NoPrediction(path) ==
    [prediction |-> None, confidence |-> 0, details |-> EmptyDict, path |-> path]

\* The successful return of predict_single, built from the six model outputs.
Prediction(lr_pred, lr_prob, rf_pred, rf_prob, svm_pred, svm_prob) ==
    LET predictions == <<lr_pred, rf_pred, svm_pred>>
        ensemble_pred == EnsemblePred(predictions)
        ensemble_prob == EnsembleProb(predictions, lr_prob, rf_prob, svm_prob)
    IN [prediction |-> ensemble_pred,
        confidence |-> ensemble_prob,
        details |->
            [individual_results |->
                [logistic_regression |-> IndividualResult(lr_pred, lr_prob),
                 random_forest |-> IndividualResult(rf_pred, rf_prob),
                 svm |-> IndividualResult(svm_pred, svm_prob)],
             consensus |-> Consensus(predictions),
             ensemble_prediction |-> ensemble_pred,
             ensemble_confidence |-> ensemble_prob,
             ensemble_label |-> Label(ensemble_pred)],
        path |-> "ok"]

\* ------------------------------------------------------------------ predict_single

\* The attribute reads of one predict_single call, by the line that reads.
ReadLines == << "l258", "l263", "l267", "l268",
                "l274", "l275", "l278", "l279", "l282", "l283" >>

\* The attribute each of these lines reads (lines 263 and 268 also go
\* through self.nlp, in get_spacy_embeddings).
AttributeRead(line) ==
    CASE line = "l258" -> "bow_vectorizer"
      [] line = "l263" -> "scaler_embeddings"
      [] line = "l267" -> "tfidf_vectorizer"
      [] line = "l268" -> "scaler_weighted"
      [] line \in {"l274", "l275"} -> "lr_model"
      [] line \in {"l278", "l279"} -> "rf_model"
      [] line \in {"l282", "l283"} -> "svm_model"

ReadLineSet == {ReadLines[i] : i \in 1..Len(ReadLines)}

\* What a call that runs alone reads: every attribute as the instance holds it.
ReadsOf(self) == [line \in ReadLineSet |-> self[AttributeRead(line)]]

\* The body of the try block of predict_single once the text is known to be
\* non-empty: features, the six model calls, the fusion, on the attribute
\* values the call read.
PredictFromReads(reads, nlp, processed_text) ==
    LET bow_features == BowTransform(reads["l258"], processed_text)
        embeddings == get_spacy_embeddings(nlp, processed_text)
        embeddings_scaled == ScalerTransform(reads["l263"], embeddings)
        weighted_embeddings ==
            get_tfidf_weighted_embeddings(reads["l267"], nlp, processed_text)
        weighted_scaled == ScalerTransform(reads["l268"], weighted_embeddings)
    IN IF \/ bow_features.raised \/ embeddings_scaled.raised
          \/ weighted_scaled.raised
          \/ \E line \in ReadLineSet : reads[line] = 0
       THEN NoPrediction("exception")
       ELSE Prediction(LrPredict(reads["l274"], bow_features),
                       LrPredictProba(reads["l275"], bow_features),
                       RfPredict(reads["l278"], embeddings_scaled),
                       RfPredictProba(reads["l279"], embeddings_scaled),
                       SvmPredict(reads["l282"], weighted_scaled),
                       SvmPredictProba(reads["l283"], weighted_scaled))

PredictProcessed(self, processed_text) ==
    PredictFromReads(ReadsOf(self), self.nlp, processed_text)

\* predict_single without its check of the processed text
PredictSingleNoEmptyCheck(self, review_text, title) ==
    IF ~self.models_loaded THEN NoPrediction("not_loaded")
    ELSE PredictProcessed(self, preprocess_text(CombinedText(title, review_text)))

\* predict_single going back to the files under models/ for the fitted
\* objects on every call
PredictSingleReadingDisk(self, review_text, title) ==
    IF ~self.models_loaded THEN NoPrediction("not_loaded")
    ELSE LET processed_text == preprocess_text(CombinedText(title, review_text))
             fromDisk == [a \in DOMAIN self |->
                            IF a \in Artifacts /\ disk[a] # 0 THEN disk[a]
                            ELSE self[a]]
         IN IF processed_text = <<>> THEN NoPrediction("empty")
            ELSE PredictProcessed(fromDisk, processed_text)

\* ReviewClassifier.predict_single; path names the return statement taken.
PredictSingle(self, review_text, title) ==
    IF ~self.models_loaded THEN NoPrediction("not_loaded")
    ELSE LET processed_text == preprocess_text(CombinedText(title, review_text))
         IN IF processed_text = <<>> THEN NoPrediction("empty")
            ELSE PredictProcessed(self, processed_text)

\* predict_single going back to the files under models/ for the fitted
\* objects on every call
\* What the caller of predict_single receives: the tuple, not the path.
Returned(r) ==
    [prediction |-> r.prediction, confidence |-> r.confidence, details |-> r.details]

BatchEntry(text, r) ==
    [text |-> text, prediction |-> r.prediction, confidence |-> r.confidence,
     details |-> r.details, path |-> r.path]

\* predict_batch appending its results in front of the list
PredictBatchReversed(self, review_texts) ==
    IF ~self.models_loaded THEN <<>>
    ELSE [i \in 1..Len(review_texts) |->
            LET text == review_texts[Len(review_texts) + 1 - i]
            IN BatchEntry(text, PredictSingle(self, text, <<>>))]

\* predict_batch giving up at the first item without a prediction
RECURSIVE PredictBatchAborting(_, _)
PredictBatchAborting(self, review_texts) ==
    IF ~self.models_loaded \/ review_texts = <<>> THEN <<>>
    ELSE LET r == PredictSingle(self, Head(review_texts), <<>>)
         IN IF r.prediction = None THEN <<>>
            ELSE <<BatchEntry(Head(review_texts), r)>>
                    \o PredictBatchAborting(self, Tail(review_texts))

\* ReviewClassifier.predict_batch
PredictBatch(self, review_texts) ==
    IF ~self.models_loaded THEN <<>>
    ELSE [i \in 1..Len(review_texts) |->
            BatchEntry(review_texts[i], PredictSingle(self, review_texts[i], <<>>))]

\* ReviewClassifier.get_model_info, reduced to the fact it reports
GetModelInfo(self) ==
    IF ~self.models_loaded THEN [error |-> "Models not loaded"]
    ELSE [models_loaded |-> TRUE]

\* ------------------------------------------------------------------ inputs

\* Review texts a caller passes: empty, digits and blanks only, one word in
\* either case, two letters, two words, letters mixed with digits.
ReviewTexts ==
    {<<>>, <<"1">>, <<" ", "1">>, <<"a">>, <<"B">>, <<"a", "a">>, <<"a", "B">>,
     <<"B", "B">>, <<"a", " ", "B">>, <<"a", "1">>}

Titles == {<<>>, <<"1">>, <<"B">>}

\* Items of a batch: a text that normalizes to nothing, two that predict,
\* one that the embedding step refuses.
BatchTexts == {<<"1">>, <<"a">>, <<"a", "B">>, <<"a", " ", "B", "B">>}

RECURSIVE BatchesUpTo(_)
BatchesUpTo(n) ==
    IF n = 0 THEN {<<>>}
    ELSE LET shorter == BatchesUpTo(n - 1)
         IN shorter \cup {Append(b, t) : b \in shorter, t \in BatchTexts}

Batches == BatchesUpTo(MaxBatch)

\* The threads of the server process: the main thread, which runs main()
\* up to app.run, and the threads that serve requests.
MainThread == 0
Threads == {1, 2}

\* What the request threads are asked to predict.
RequestTexts == {<<"a", "B">>}

\* ------------------------------------------------------------------ initial state

EmptyDisk == [a \in Artifacts |-> 0]

\* The version of the objects an earlier training run left in models/.
EarlierRun == 1

\* A complete bundle: the seven dumps of run r and the spaCy model name.
CompleteDisk(r) == [a \in Artifacts |-> IF a = "nlp" THEN SpacyModelName ELSE r]

\* models/ holds nothing, a complete bundle, or a bundle with one file missing.
InitialDisks ==
    {EmptyDisk, CompleteDisk(EarlierRun)}
        \cup {[CompleteDisk(EarlierRun) EXCEPT ![a] = 0] : a \in Artifacts}

NoCall == [op |-> "none"]

NoReads == [line \in ReadLineSet |-> 0]

\* A thread outside any call.  The main thread starts at "idle" too, about
\* to call load_ml_models.
IdleThread ==
    [pc |-> "idle", i |-> 0, review_text |-> <<>>, title |-> <<>>,
     reads |-> NoReads, value |-> NoCall]

\* session = {} : no user_id, no user_name, no pending_review.
NoPending == [none |-> TRUE]

EmptySession ==
    [user_id |-> 0, user_name |-> "", user_email |-> "", pending_review |-> NoPending]

\* No request has been answered yet, or the browser has moved on.
NoResponse == [route |-> "none", status |-> 0, location |-> ""]

\* A register request that has not started.
IdleRegister == [pc |-> "idle", email |-> "", found |-> FALSE, flash |-> ""]

\* No training script is running.
NoRun == [script |-> "none"]

\* The state once the module is imported: classifier = ReviewClassifier()
\* has run load_models once against models/.
Init ==
    /\ disk \in InitialDisks
    /\ classifier = LoadedClassifier(NewClassifier, disk)
    /\ everLoaded = LoadReturns(disk)
    /\ ret = NoCall
    /\ runs = 0
    /\ saveIdx = 0
    /\ saveOpen = FALSE
    /\ thread = [t \in {MainThread} \cup Threads |-> IdleThread]
    /\ firstCall = NoCall
    /\ calc = NoCall
    /\ session = EmptySession
    /\ users = <<>>
    /\ reviews = <<>>
    /\ resp = NoResponse
    /\ accepted = 0
    /\ regs = [t \in Threads |-> IdleRegister]
    /\ run = NoRun

\* ------------------------------------------------------------------ training side

envVars == <<runs, saveIdx, saveOpen>>
reqVars == <<thread>>
appVars == <<session, users, reviews, resp, accepted, regs, run>>
auxVars == <<firstCall, calc, appVars>>

\* retrain_models.py reaches "Saving models..." with the models of a new run.
RetrainStartsSaving ==
    /\ saveIdx = 0
    /\ runs < MaxRuns
    /\ runs' = runs + 1
    /\ saveIdx' = 1
    /\ saveOpen' = FALSE
    /\ UNCHANGED <<disk, classifier, ret, everLoaded, reqVars, auxVars>>

\* joblib.dump opens the target for writing: the old content is gone and
\* the file cannot be loaded until the dump is complete.
JoblibDumpOpens ==
    /\ saveIdx > 0
    /\ ~saveOpen
    /\ disk' = [disk EXCEPT ![SaveOrder[saveIdx]] = 0]
    /\ saveOpen' = TRUE
    /\ UNCHANGED <<classifier, ret, everLoaded, runs, saveIdx, reqVars, auxVars>>

\* joblib.dump completes: the file holds the object of this run.
JoblibDumpCompletes ==
    /\ saveIdx > 0
    /\ saveOpen
    /\ disk' = [disk EXCEPT ![SaveOrder[saveIdx]] = EarlierRun + runs]
    /\ saveOpen' = FALSE
    /\ saveIdx' = IF saveIdx = Len(SaveOrder) THEN 0 ELSE saveIdx + 1
    /\ UNCHANGED <<classifier, ret, everLoaded, runs, reqVars, auxVars>>

\* train_models.py writes models/spacy_model.txt.
SaveSpacyModelTxt ==
    /\ disk' = [disk EXCEPT !["nlp"] = SpacyModelName]
    /\ UNCHANGED <<classifier, ret, everLoaded, envVars, reqVars, auxVars>>

\* ------------------------------------------------------------------ service calls

\* The calls below are made by one caller, one call at a time: ret holds
\* what the last call returned until the caller goes on.

\* load_ml_models() -> classifier.load_models()
LoadMlModels ==
    /\ ret = NoCall
    /\ classifier' = LoadedClassifier(classifier, disk)
    /\ everLoaded' = (everLoaded \/ LoadReturns(disk))
    /\ ret' = [op |-> "load_models", value |-> LoadReturns(disk),
               loaded_before |-> everLoaded,
               files_read |-> ReadablePrefix(disk, 1)]
    /\ UNCHANGED <<disk, envVars, reqVars, auxVars>>

\* classifier.predict_single(review_text, title)
PredictSingleCall ==
    /\ ret = NoCall
    /\ \E review_text \in ReviewTexts, title \in Titles :
        /\ ret' = [op |-> "predict_single", review_text |-> review_text,
                   title |-> title,
                   value |-> PredictSingle(classifier, review_text, title)]
        /\ UNCHANGED <<disk, classifier, everLoaded, envVars, reqVars, auxVars>>

\* classifier.predict_batch(review_texts)
PredictBatchCall ==
    /\ ret = NoCall
    /\ \E review_texts \in Batches :
        /\ ret' = [op |-> "predict_batch", review_texts |-> review_texts,
                   value |-> PredictBatch(classifier, review_texts)]
        /\ UNCHANGED <<disk, classifier, everLoaded, envVars, reqVars, auxVars>>

\* predict_review_sentiment loading the files on every call
EnsuredClassifierReloading(self, d) == LoadedClassifier(self, d)

\* The instance predict_review_sentiment predicts with: it calls
\* load_models first when the flag is not set.
EnsuredClassifier(self, d) ==
    IF ~self.models_loaded THEN LoadedClassifier(self, d) ELSE self

\* predict_review_sentiment(review_text, title)
PredictReviewSentiment ==
    /\ ret = NoCall
    /\ \E review_text \in ReviewTexts, title \in Titles :
        /\ classifier' = EnsuredClassifier(classifier, disk)
        /\ everLoaded' = (everLoaded \/ (~classifier.models_loaded /\ LoadReturns(disk)))
        /\ ret' = [op |-> "predict_review_sentiment", review_text |-> review_text,
                   title |-> title,
                   value |-> PredictSingle(classifier', review_text, title),
                   loaded_before |-> everLoaded,
                   files_read |-> IF classifier.models_loaded THEN 0
                                  ELSE ReadablePrefix(disk, 1)]
        /\ UNCHANGED <<disk, envVars, reqVars, auxVars>>

\* get_model_info()
GetModelInfoCall ==
    /\ ret = NoCall
    /\ ret' = [op |-> "get_model_info", value |-> GetModelInfo(classifier)]
    /\ UNCHANGED <<disk, classifier, everLoaded, envVars, reqVars, auxVars>>

\* The caller has used what the call returned and goes on to its next call.
CallerProceeds ==
    /\ ret # NoCall
    /\ ret' = NoCall
    /\ UNCHANGED <<disk, classifier, everLoaded, envVars, reqVars, auxVars>>

Next ==
    \/ RetrainStartsSaving
    \/ JoblibDumpOpens
    \/ JoblibDumpCompletes
    \/ SaveSpacyModelTxt
    \/ LoadMlModels
    \/ PredictSingleCall
    \/ PredictBatchCall
    \/ PredictReviewSentiment
    \/ GetModelInfoCall
    \/ CallerProceeds

Spec == Init /\ [][Next]_vars

\* ------------------------------------------------------------------ shape of the state

Versions == 0..(EarlierRun + MaxRuns)

TypeOK ==
    /\ disk \in [Artifacts -> Versions]
    /\ classifier.models_loaded \in BOOLEAN
    /\ \A a \in Artifacts : classifier[a] \in Versions
    /\ everLoaded \in BOOLEAN
    /\ runs \in 0..MaxRuns
    /\ saveIdx \in 0..Len(SaveOrder)
    /\ saveOpen \in BOOLEAN

IsPredictCall == ret.op \in {"predict_single", "predict_review_sentiment"}

\* The six model outputs a successful result reports.
ReportedPredictions(details) ==
    << details.individual_results.logistic_regression.prediction,
       details.individual_results.random_forest.prediction,
       details.individual_results.svm.prediction >>

ReportedProbabilities(details) ==
    << details.individual_results.logistic_regression.confidence,
       details.individual_results.random_forest.confidence,
       details.individual_results.svm.confidence >>

\* ------------------------------------------------------------------ C1

Triples == {<<a, b, c>> : a \in {0, 1}, b \in {0, 1}, c \in {0, 1}}

\* The vote over each of the eight triples, and the vote of the training
\* script over it.
MajorityOnEveryTriple ==
    \A t \in Triples :
        /\ CountOf(t, EnsemblePred(t)) >= 2
        /\ RetrainEnsemblePred(t) = EnsemblePred(t)

\* C1: for every triple of binary predictions the ensemble prediction is the
\* value at least two of the three models hold, and the vote of the training
\* script (1 iff the sum is at least 2) gives the same value; every result
\* predict_single returns carries that value for the triple it reports.
C1_MajorityVote ==
    /\ MajorityOnEveryTriple
    /\ (IsPredictCall /\ ret.value.path = "ok") =>
        LET t == ReportedPredictions(ret.value.details) IN
        /\ t \in Triples
        /\ CountOf(t, ret.value.prediction) >= 2
        /\ ret.value.details.ensemble_prediction = ret.value.prediction
        /\ RetrainEnsemblePred(t) = ret.value.prediction

\* A returned prediction of 0 won by two votes against one.
C1_Witness ==
    /\ ret.op = "predict_single"
    /\ ret.value.path = "ok"
    /\ ret.value.prediction = 0
    /\ CountOf(ReportedPredictions(ret.value.details), 1) = 1

\* ------------------------------------------------------------------ C2

Sum3(t) == t[1] + t[2] + t[3]

\* C2: the returned confidence is the mean of the three positive-class
\* probabilities, whichever class won the vote.
C2_ConfidenceIsMean ==
    (IsPredictCall /\ ret.value.path = "ok") =>
        LET probs == ReportedProbabilities(ret.value.details) IN
        /\ 3 * ret.value.confidence = Sum3(probs)
        /\ ret.value.details.ensemble_confidence = ret.value.confidence

\* The vote went to class 0 and the mean differs from the probability of class 0.
C2_Witness ==
    /\ ret.op = "predict_single"
    /\ ret.value.path = "ok"
    /\ ret.value.prediction = 0
    /\ 2 * ret.value.confidence # ProbDen
    /\ ret.value.confidence > 0

\* ------------------------------------------------------------------ C3

\* C3: consensus is true exactly when the three reported predictions are equal.
C3_ConsensusIffAllEqual ==
    (IsPredictCall /\ ret.value.path = "ok") =>
        LET t == ReportedPredictions(ret.value.details) IN
        ret.value.details.consensus <=> (t[1] = t[2] /\ t[2] = t[3])

\* No consensus although the first two models agree.
C3_Witness ==
    /\ ret.op = "predict_single"
    /\ ret.value.path = "ok"
    /\ ~ret.value.details.consensus
    /\ LET t == ReportedPredictions(ret.value.details) IN t[1] = t[2] /\ t[2] # t[3]

\* ------------------------------------------------------------------ C4

\* C4: as long as no load_models call has succeeded (the load made at
\* construction failed, and so did every later one), each predict_single call
\* returns the not-loaded outcome and no prediction.
C4_NotLoadedUntilLoadSucceeds ==
    (IsPredictCall /\ ~everLoaded) =>
        /\ ret.value = NoPrediction("not_loaded")
        /\ ret.value.prediction = None

\* The load stopped at the missing SVM file; a call with a plain word follows.
C4_Witness ==
    /\ ret.op = "predict_single"
    /\ ~everLoaded
    /\ classifier.rf_model # 0
    /\ classifier.svm_model = 0
    /\ ret.review_text = <<"a">>

\* ------------------------------------------------------------------ C5

\* C5: when load_models returns False (a partial bundle), the service is not
\* loaded afterwards: the flag is False, get_model_info reports the error and
\* predict_single produces no prediction, whatever loads came before.
C5_PartialBundleNotLoaded ==
    (ret.op = "load_models" /\ ret.value = FALSE) =>
        /\ ~classifier.models_loaded
        /\ GetModelInfo(classifier) = [error |-> "Models not loaded"]
        /\ PredictSingle(classifier, <<"a">>, <<>>).prediction = None

\* ------------------------------------------------------------------ C6

NoLetter(s) == \A i \in 1..Len(s) : s[i] \notin Letters

\* C6: with the service loaded, a title and a text without any letter give
\* the empty-input return and no prediction.
C6_EmptyInputNoPrediction ==
    (/\ IsPredictCall
     /\ classifier.models_loaded
     /\ NoLetter(ret.review_text)
     /\ NoLetter(ret.title)) =>
        /\ ret.value = NoPrediction("empty")
        /\ ret.value.prediction \notin {0, 1}

\* Digits and blanks only, in the title and in the text, on a loaded service.
C6_Witness ==
    /\ ret.op = "predict_single"
    /\ classifier.models_loaded
    /\ ret.review_text = <<" ", "1">>
    /\ ret.title = <<"1">>
    /\ ret.value.path = "empty"

\* ------------------------------------------------------------------ C7

FailurePaths == {"not_loaded", "empty", "exception"}

\* C7: the value handed to the caller tells the three failures apart: the
\* value returned for one failure is not the value returned for another.
C7_FailuresDistinguishable ==
    (IsPredictCall /\ ret.value.path \in FailurePaths) =>
        \A other \in FailurePaths \ {ret.value.path} :
            Returned(ret.value) # Returned(NoPrediction(other))

\* ------------------------------------------------------------------ C8

SameAsAlone(entry, text) ==
    LET alone == PredictSingle(classifier, text, <<>>) IN
    /\ entry.text = text
    /\ entry.prediction = alone.prediction
    /\ entry.confidence = alone.confidence
    /\ entry.details = alone.details

OnePerTextInOrder ==
    /\ Len(ret.value) = Len(ret.review_texts)
    /\ \A i \in 1..Len(ret.review_texts) :
        SameAsAlone(ret.value[i], ret.review_texts[i])

\* C8 as stated: in every load state predict_batch returns one result per
\* text, in order, each the result of predict_single on that text.
C8_BatchEqualsSingleInEveryState ==
    ret.op = "predict_batch" => OnePerTextInOrder

\* C8 amended: on a loaded service predict_batch returns one result per text,
\* in order, each the result of predict_single on that text; on a service
\* that is not loaded it returns the empty list.
C8_BatchEqualsSingleWhenLoaded ==
    ret.op = "predict_batch" =>
        IF classifier.models_loaded THEN OnePerTextInOrder ELSE ret.value = <<>>

\* Two texts with different predictions, answered in their order.
C8_Witness ==
    /\ ret.op = "predict_batch"
    /\ classifier.models_loaded
    /\ Len(ret.value) = 2
    /\ ret.value[1].path = "ok"
    /\ ret.value[2].path = "ok"
    /\ ret.value[1].prediction # ret.value[2].prediction

\* ------------------------------------------------------------------ C9

\* The item fails for a reason of its own: no letter in it, or a text the
\* embedding step refuses.
ItemFails(text) ==
    \/ preprocess_text(CombinedText(<<>>, text)) = <<>>
    \/ Len(preprocess_text(CombinedText(<<>>, text))) > NlpMaxLength

\* C9: in a batch on a loaded service a failing item gets a failure entry of
\* its own, and every other item gets the prediction it gets alone.
C9_BatchFailureIsolated ==
    (ret.op = "predict_batch" /\ classifier.models_loaded) =>
        /\ Len(ret.value) = Len(ret.review_texts)
        /\ \A i \in 1..Len(ret.review_texts) :
            IF ItemFails(ret.review_texts[i])
            THEN /\ ret.value[i].prediction = None
                 /\ ret.value[i].details = EmptyDict
                 /\ ret.value[i].path \in {"empty", "exception"}
            ELSE /\ ret.value[i].prediction \in {0, 1}
                 /\ ret.value[i].prediction =
                        PredictSingle(classifier, ret.review_texts[i], <<>>).prediction

\* The first item raises in feature extraction, the second one is predicted.
C9_Witness ==
    /\ ret.op = "predict_batch"
    /\ Len(ret.value) = 2
    /\ ret.value[1].path = "exception"
    /\ ret.value[2].path = "ok"

\* ------------------------------------------------------------------ threads of the server

\* The calls of the concurrent model are those of the server process:
\* main() calls load_ml_models and then app.run, whose threads each run
\* predict_review_sentiment for a request.  A step is one read or write of
\* an attribute of the shared classifier.

srvVars == <<ret, envVars>>

\* main(): load_ml_models() is called.
MainCallsLoad ==
    /\ thread[MainThread].pc = "idle"
    /\ thread' = [thread EXCEPT ![MainThread].pc = "load", ![MainThread].i = 1]
    /\ UNCHANGED <<disk, classifier, everLoaded, srvVars, auxVars>>

\* Where a thread goes on when its load_models call returns.
AfterLoad(t) == IF t = MainThread THEN "serving" ELSE "l237"

\* load_models, one artifact: the file is read and assigned to its
\* attribute, or reading raises and load_models returns False.
LoadStep(t) ==
    /\ thread[t].pc = "load"
    /\ LET a == LoadOrder[thread[t].i] IN
        IF disk[a] = 0
        THEN /\ thread' = [thread EXCEPT ![t].pc = AfterLoad(t), ![t].i = 0]
             /\ UNCHANGED classifier
        ELSE /\ classifier' = [classifier EXCEPT ![a] = disk[a]]
             /\ thread' = [thread EXCEPT
                    ![t].pc = IF thread[t].i = Len(LoadOrder) THEN "l85" ELSE "load",
                    ![t].i = IF thread[t].i = Len(LoadOrder) THEN 0 ELSE thread[t].i + 1]
    /\ UNCHANGED <<disk, everLoaded, srvVars, auxVars>>

\* load_models: self.models_loaded = True, return True.
LoadSetsFlag(t) ==
    /\ thread[t].pc = "l85"
    /\ classifier' = [classifier EXCEPT !.models_loaded = TRUE]
    /\ everLoaded' = TRUE
    /\ thread' = [thread EXCEPT ![t].pc = AfterLoad(t)]
    /\ UNCHANGED <<disk, srvVars, auxVars>>

\* A request arrives: predict_review_sentiment(review_text, title) reads the
\* flag and calls load_models when it is not set.
RequestStarts(t) ==
    /\ thread[MainThread].pc = "serving"
    /\ thread[t].pc = "idle"
    /\ \E review_text \in RequestTexts :
        thread' = [thread EXCEPT
            ![t].review_text = review_text,
            ![t].pc = IF classifier.models_loaded THEN "l237" ELSE "load",
            ![t].i = IF classifier.models_loaded THEN 0 ELSE 1]
    /\ UNCHANGED <<disk, classifier, everLoaded, srvVars, auxVars>>

\* predict_single up to its first read of a fitted object: the flag is
\* checked, the text combined, preprocessed and checked.
PredictChecks(t) ==
    /\ thread[t].pc = "l237"
    /\ LET processed_text ==
            preprocess_text(CombinedText(thread[t].title, thread[t].review_text))
       IN thread' = [thread EXCEPT
            ![t].pc = IF classifier.models_loaded /\ processed_text # <<>>
                      THEN ReadLines[1] ELSE "returned",
            ![t].value = IF ~classifier.models_loaded THEN NoPrediction("not_loaded")
                         ELSE IF processed_text = <<>> THEN NoPrediction("empty")
                         ELSE NoCall]
    /\ UNCHANGED <<disk, classifier, everLoaded, srvVars, auxVars>>

LineIndex(line) == CHOOSE k \in 1..Len(ReadLines) : ReadLines[k] = line

\* predict_single, one line that uses a fitted object: the attribute is read
\* as it is now.  After the last one the result is built and returned.
PredictReads(t) ==
    /\ thread[t].pc \in ReadLineSet
    /\ LET line == thread[t].pc
           k == LineIndex(line)
           reads == [thread[t].reads EXCEPT ![line] = classifier[AttributeRead(line)]]
       IN thread' = [thread EXCEPT
            ![t].reads = reads,
            ![t].pc = IF k = Len(ReadLines) THEN "returned" ELSE ReadLines[k + 1],
            ![t].value =
                IF k = Len(ReadLines)
                THEN PredictFromReads(reads, classifier.nlp,
                        preprocess_text(CombinedText(thread[t].title,
                                                     thread[t].review_text)))
                ELSE NoCall]
    /\ UNCHANGED <<disk, classifier, everLoaded, srvVars, auxVars>>

\* The route answers with what predict_review_sentiment returned.
RequestEnds(t) ==
    /\ thread[t].pc = "returned"
    /\ thread' = [thread EXCEPT ![t] = IdleThread]
    /\ UNCHANGED <<disk, classifier, everLoaded, srvVars, auxVars>>

NextConc ==
    \/ RetrainStartsSaving
    \/ JoblibDumpOpens
    \/ JoblibDumpCompletes
    \/ SaveSpacyModelTxt
    \/ MainCallsLoad
    \/ \E t \in {MainThread} \cup Threads : LoadStep(t)
    \/ \E t \in {MainThread} \cup Threads : LoadSetsFlag(t)
    \/ \E t \in Threads : RequestStarts(t)
    \/ \E t \in Threads : PredictChecks(t)
    \/ \E t \in Threads : PredictReads(t)
    \/ \E t \in Threads : RequestEnds(t)

\* The server is started on an empty models/ or on a complete bundle.
InitConc == Init /\ disk \in {EmptyDisk, CompleteDisk(EarlierRun)}

SpecConc == InitConc /\ [][NextConc]_vars

\* ------------------------------------------------------------------ C10

\* The instance a load from the complete bundle of run v gives.
LoadedFrom(v) == LoadedClassifier(NewClassifier, CompleteDisk(v))

\* C10: every prediction a request thread returns was computed from
\* classifiers, vectorizers and scalers of one bundle, and is what the call
\* returns when it runs alone on that bundle.
C10_PredictionFromOneBundle ==
    \A t \in Threads :
        (thread[t].pc = "returned" /\ thread[t].value.path = "ok") =>
            \E v \in 1..(EarlierRun + MaxRuns) :
                /\ \A line \in ReadLineSet : thread[t].reads[line] = v
                /\ Returned(thread[t].value) =
                       Returned(PredictSingle(LoadedFrom(v), thread[t].review_text,
                                              thread[t].title))

\* ------------------------------------------------------------------ C11

\* C11: once a load has succeeded in the process, no later call reads the
\* artifact files again: a load_ml_models or predict_review_sentiment call
\* made after it reads no file, and no load succeeds a second time.
C11_LoadedBundleCached ==
    (ret.op \in {"load_models", "predict_review_sentiment"} /\ ret.loaded_before) =>
        /\ ret.files_read = 0
        /\ ~(ret.op = "load_models" /\ ret.value = TRUE)

\* ------------------------------------------------------------------ C12

InferenceOps ==
    {"predict_single", "predict_batch", "predict_review_sentiment", "get_model_info"}

\* C12: a step in which an inference call is made on a loaded classifier
\* leaves every component of the bundle and the flag as they were, whether
\* the call returns a prediction or not.
C12_InferenceLeavesBundle ==
    [][(classifier.models_loaded /\ ret.op = "none" /\ ret'.op \in InferenceOps)
            => classifier' = classifier]_vars

\* predict_review_sentiment has failed on a loaded classifier while models/
\* holds a newer logistic regression than the one in memory.
C12_Witness ==
    /\ ret.op = "predict_review_sentiment"
    /\ classifier.models_loaded
    /\ ret.value.path = "exception"
    /\ disk.lr_model # 0
    /\ disk.lr_model # classifier.lr_model

\* ------------------------------------------------------------------ repeated calls

\* What the caller keeps of a predict_single call to compare later calls
\* with: the call, and the instance it was made on.
ProbeTexts == {<<"a", "B">>}

\* The caller keeps the first predict_single call on the probe text.
CallerRemembers ==
    /\ ret.op = "predict_single"
    /\ ret.title = <<>>
    /\ ret.review_text \in ProbeTexts
    /\ firstCall = NoCall
    /\ firstCall' = [call |-> ret, classifier |-> classifier]
    /\ ret' = NoCall
    /\ UNCHANGED <<disk, classifier, everLoaded, envVars, reqVars, calc,
                     appVars>>

NextRepeat ==
    \/ RetrainStartsSaving
    \/ JoblibDumpOpens
    \/ JoblibDumpCompletes
    \/ LoadMlModels
    \/ PredictSingleCall
    \/ PredictBatchCall
    \/ CallerRemembers
    \/ CallerProceeds

\* The process starts on a complete bundle.
InitRepeat == Init /\ disk = CompleteDisk(EarlierRun)

SpecRepeat == InitRepeat /\ [][NextRepeat]_vars

\* ------------------------------------------------------------------ C13

MaxLen == 4
MaxFieldLen == 2

\* The characters texts are made of: letters in both cases, a blank, a tab,
\* a digit.
Chars == Letters \cup Whitespace \cup {"1"}

\* The characters of the fields of a review.
FieldChars == {"a", "B", " ", "1"}

RECURSIVE StringsUpTo(_, _)
StringsUpTo(chars, n) ==
    IF n = 0 THEN {<<>>}
    ELSE LET shorter == StringsUpTo(chars, n - 1)
         IN shorter \cup {Append(t, ch) : t \in shorter, ch \in chars}

Texts == StringsUpTo(Chars, MaxLen) \cup {Missing}

Fields == StringsUpTo(FieldChars, MaxFieldLen) \cup {Missing}

\* preprocess_text of retrain_models.py (and of train_model.py)
retrain_preprocess_text(text) ==
    IF text = Missing THEN <<>>
    ELSE Strip(CollapseWhitespace(RemoveSpecialChars(Lower(text))))

\* retrain_models.py: (processed_title + ' ' + processed_text).str.strip()
RetrainCombinedText(title, review_text) ==
    Strip(retrain_preprocess_text(title) \o <<" ">>
            \o retrain_preprocess_text(review_text))

\* What the routes pass for a field of the form: request.form.get(name, '').
Submitted(field) == IF field = Missing THEN <<>> ELSE field

\* classifier.preprocess_text(text)
PreprocessTextCall ==
    /\ calc = NoCall
    /\ \E text \in Texts :
        /\ calc' = [op |-> "preprocess_text", text |-> text,
                    value |-> preprocess_text(text)]
        /\ UNCHANGED <<disk, classifier, ret, everLoaded, envVars, reqVars, firstCall,
                     appVars>>

\* preprocess_text(text) of retrain_models.py
RetrainPreprocessTextCall ==
    /\ calc = NoCall
    /\ \E text \in Texts :
        /\ calc' = [op |-> "retrain_preprocess_text", text |-> text,
                    value |-> retrain_preprocess_text(text)]
        /\ UNCHANGED <<disk, classifier, ret, everLoaded, envVars, reqVars, firstCall,
                     appVars>>

\* One review taken through both paths: the text predict_single hands to
\* the extractors, and the combined_text retrain_models.py builds.
CombinedTextCall ==
    /\ calc = NoCall
    /\ \E title \in Fields, review_text \in Fields :
        /\ calc' = [op |-> "combined_text", title |-> title,
                    review_text |-> review_text,
                    inference |-> preprocess_text(
                        CombinedText(Submitted(title), Submitted(review_text))),
                    training |-> RetrainCombinedText(title, review_text)]
        /\ UNCHANGED <<disk, classifier, ret, everLoaded, envVars, reqVars, firstCall,
                     appVars>>

\* ------------------------------------------------------------------ weighted embeddings

\* token.is_stop: "a" is a stop word of the language model
IsStop(token) == token = <<"a">>

NotStop(token) == ~IsStop(token)

\* token.vector
TokenVector(nlp, token) == TextCode(token)

\* tfidf_vectorizer.vocabulary_: the fitted vocabulary holds the words made
\* of the letter b.
InVocabulary(vectorizer, token) == \A i \in 1..Len(token) : token[i] = "b"

\* tfidf_scores[word_idx]: positive for a word of the vocabulary that the
\* text contains, growing with its number of occurrences
TfidfScore(vectorizer, text, token) ==
    IF InVocabulary(vectorizer, token)
    THEN Cardinality({i \in 1..Len(Tokens(text)) : Tokens(text)[i] = token})
    ELSE 0

\* The tokens the training-time extractor averages over: not token.is_stop,
\* not token.is_punct, token.has_vector.
VectorizableTokens(text) == SelectSeq(Tokens(text), NotStop)

RECURSIVE SumSeq(_)
SumSeq(q) == IF q = <<>> THEN 0 ELSE Head(q) + SumSeq(Tail(q))

\* get_tfidf_weighted_embeddings of retrain_models.py on one text: the
\* vector is x / n, x the weighted sum of the token vectors and n the sum
\* of the weights.  Without a token to average over it is np.zeros(300);
\* np.average raises ZeroDivisionError when the weights sum to zero.
retrain_get_tfidf_weighted_embeddings(text, nlp, tfidf_vectorizer) ==
    IF \/ TfidfTransform(tfidf_vectorizer, text).raised
       \/ get_spacy_embeddings(nlp, text).raised
    THEN Raised
    ELSE LET tokens == VectorizableTokens(text)
             word_weights == [i \in 1..Len(tokens) |->
                                TfidfScore(tfidf_vectorizer, text, tokens[i])]
             weighted == [i \in 1..Len(tokens) |->
                            word_weights[i] * TokenVector(nlp, tokens[i])]
         IN IF tokens = <<>>
            THEN [raised |-> FALSE, by |-> nlp, x |-> 0, n |-> 1]
            ELSE IF SumSeq(word_weights) = 0 THEN Raised
            ELSE [raised |-> FALSE, by |-> nlp, x |-> SumSeq(weighted),
                  n |-> SumSeq(word_weights)]

\* The texts the extractors are given: preprocessed, not empty, some of
\* them longer than the language model takes.
ProcessedTexts ==
    {preprocess_text(t) : t \in StringsUpTo({"a", "b", " "}, NlpMaxLength + 1)}
        \ {<<>>}

\* One text taken through the extractor of the service and the extractor
\* of retrain_models.py, with the same fitted vectorizer and language model.
WeightedEmbeddingsCall ==
    /\ calc = NoCall
    /\ \E text \in ProcessedTexts, tfidf_vectorizer \in 1..(EarlierRun + 1) :
        /\ calc' = [op |-> "weighted_embeddings", text |-> text,
                    tfidf_vectorizer |-> tfidf_vectorizer,
                    plain |-> get_spacy_embeddings(SpacyModelName, text),
                    inference |-> get_tfidf_weighted_embeddings(
                                    tfidf_vectorizer, SpacyModelName, text),
                    training |-> retrain_get_tfidf_weighted_embeddings(
                                    text, SpacyModelName, tfidf_vectorizer)]
        /\ UNCHANGED <<disk, classifier, ret, everLoaded, envVars, reqVars, firstCall,
                     appVars>>

\* ------------------------------------------------------------------ corpus rows

\* A row of the corpus: Title, Review Text, Recommended IND, each of them
\* possibly missing (None stands for a missing label).
Rows ==
    [title : {Missing, <<>>, <<"a">>},
     text : {Missing, <<>>, <<"1">>, <<"a">>},
     label : {None, 0, 1}]

\* retrain_models.py, one row: it is removed when its combined text is
\* empty; np.bincount(y) raises on the labels when one of them is missing;
\* any other row goes on to the split and the fitting.
RetrainRow(row) ==
    IF RetrainCombinedText(row.title, row.text) = <<>> THEN "removed"
    ELSE IF row.label = None THEN "aborted"
    ELSE "fitted"

\* train_models.py, one row: dropna on the review text and the label, then
\* the rows whose cleaned text is empty are removed.
TrainModelsRow(row) ==
    IF row.text = Missing \/ row.label = None THEN "removed"
    ELSE IF preprocess_text(row.text) = <<>> THEN "removed"
    ELSE "fitted"

\* train_model.py, one row: the same two steps.
TrainModelRow(row) ==
    IF row.text = Missing \/ row.label = None THEN "removed"
    ELSE IF retrain_preprocess_text(row.text) = <<>> THEN "removed"
    ELSE "fitted"

\* One row taken through the cleaning steps of the three training scripts.
CleanRowCall ==
    /\ calc = NoCall
    /\ \E row \in Rows :
        /\ calc' = [op |-> "clean_row", row |-> row,
                    retrain_models |-> RetrainRow(row),
                    train_models |-> TrainModelsRow(row),
                    train_model |-> TrainModelRow(row)]
        /\ UNCHANGED <<disk, classifier, ret, everLoaded, envVars, reqVars, firstCall,
                     appVars>>

\* ------------------------------------------------------------------ review statistics
\* src/src/utils/helpers.py

\* d.get(key): None for a key the dict does not have.
Get(d, key) == IF key \in DOMAIN d THEN d[key] ELSE None

\* round(num / den, 1) in tenths: Python rounds the exactly representable
\* ties (den a power of two) to the even tenth.
RoundTenths(num, den) ==
    LET q == (10 * num) \div den
        r == (10 * num) % den
    IN IF 2 * r < den THEN q
       ELSE IF 2 * r > den THEN q + 1
       ELSE IF q % 2 = 0 THEN q ELSE q + 1

RECURSIVE SumRatings(_)
SumRatings(rs) ==
    IF rs = <<>> THEN 0
    ELSE (IF "rating" \in DOMAIN Head(rs) THEN Head(rs).rating ELSE 0)
            + SumRatings(Tail(rs))

\* calculate_average_rating(reviews), in tenths of a star.
calculate_average_rating(rs) ==
    IF rs = <<>> THEN 0 ELSE RoundTenths(SumRatings(rs), Len(rs))

\* The decision get_review_stats and product_detail read off a review.
DecisionOfMlOnly(review) == Get(review, "ml_prediction")

DecisionOf(review) ==
    LET decision == Get(review, "final_decision")
    IN IF decision = None THEN Get(review, "ml_prediction") ELSE decision

RECURSIVE RecommendedCount(_)
RecommendedCount(rs) ==
    IF rs = <<>> THEN 0
    ELSE (IF DecisionOf(Head(rs)) = 1 THEN 1 ELSE 0) + RecommendedCount(Tail(rs))

\* get_review_stats(reviews); the rates in tenths.
get_review_stats(rs) ==
    IF rs = <<>>
    THEN [total_reviews |-> 0, average_rating |-> 0, recommended_count |-> 0,
          not_recommended_count |-> 0, recommendation_rate |-> 0]
    ELSE LET total_reviews == Len(rs)
             recommended_count == RecommendedCount(rs)
         IN [total_reviews |-> total_reviews,
             average_rating |-> calculate_average_rating(rs),
             recommended_count |-> recommended_count,
             not_recommended_count |-> total_reviews - recommended_count,
             recommendation_rate |->
                 RoundTenths(100 * recommended_count, total_reviews)]

MaxReviews == 2

\* Reviews as the products collection may hold them: with a final_decision
\* (None, 0 or 1) or, for reviews stored before there was one, without.
StatReviews ==
    [rating : {2, 5}, ml_prediction : {None, 0, 1}]
        \cup [rating : {2, 5}, ml_prediction : {None, 0, 1},
              final_decision : {None, 0, 1}]

ReviewLists == StringsUpTo(StatReviews, MaxReviews)

ReviewStatsCall ==
    /\ calc = NoCall
    /\ \E rs \in ReviewLists :
        /\ calc' = [op |-> "get_review_stats", reviews |-> rs,
                    value |-> get_review_stats(rs)]
        /\ UNCHANGED <<disk, classifier, ret, everLoaded, envVars, reqVars, firstCall,
                     appVars>>

\* The result has been used; the next application can be made.
CalcDone ==
    /\ calc # NoCall
    /\ calc' = NoCall
    /\ UNCHANGED <<disk, classifier, ret, everLoaded, envVars, reqVars, firstCall,
                     appVars>>

NextPure ==
    \/ CalcDone
    \/ PreprocessTextCall
    \/ RetrainPreprocessTextCall
    \/ CombinedTextCall
    \/ WeightedEmbeddingsCall
    \/ CleanRowCall
    \/ ReviewStatsCall

\* No bundle is needed to apply these functions.
InitPure == Init /\ disk = EmptyDisk

SpecPure == InitPure /\ [][NextPure]_vars

\* ------------------------------------------------------------------ C14

LowerLetters == {LowerChar(ch) : ch \in Letters}

\* Lowercase letters separated by single blanks, no blank at either end.
Normalized(s) ==
    /\ \A i \in 1..Len(s) : s[i] \in LowerLetters \cup {" "}
    /\ \A i \in 1..Len(s) :
            s[i] = " " => (i > 1 /\ i < Len(s) /\ s[i + 1] # " ")

\* C14: preprocess_text applied to its own result gives that result again,
\* the result is made of lowercase letters separated by single blanks, and
\* an empty or missing input gives the empty string.
C14_PreprocessIdempotentAndNormal ==
    calc.op = "preprocess_text" =>
        /\ preprocess_text(calc.value) = calc.value
        /\ Normalized(calc.value)
        /\ (calc.text \in {<<>>, Missing} => calc.value = <<>>)

\* A capital, a blank followed by a tab, a letter: every step has work to do.
C14_Witness ==
    /\ calc.op = "preprocess_text"
    /\ calc.text = <<"A", " ", "\t", "b">>
    /\ calc.value = <<"a", " ", "b">>

\* ------------------------------------------------------------------ C15

SameVector(e, f) == e.x * f.n = f.x * e.n

\* Some token the training-time extractor averages over has a weight.
HasValidWeights(tfidf_vectorizer, text) ==
    \E i \in 1..Len(VectorizableTokens(text)) :
        TfidfScore(tfidf_vectorizer, text, VectorizableTokens(text)[i]) > 0

\* C16: for a text with a vectorizable token of non-zero TF-IDF weight, the
\* weighted-embedding extractor of the service returns the weighted average
\* of the token vectors, the vector the training-time extractor computes.
C16_WeightedEmbeddingsAreWeighted ==
    (/\ calc.op = "weighted_embeddings"
     /\ Len(calc.text) <= NlpMaxLength
     /\ HasValidWeights(calc.tfidf_vectorizer, calc.text)) =>
        /\ ~calc.inference.raised
        /\ ~calc.training.raised
        /\ SameVector(calc.inference, calc.training)

\* ------------------------------------------------------------------ C17

\* C17: in the training-time extractor a text without a vectorizable token,
\* and a text whose vectorizable tokens all have weight zero, get the
\* document-level embedding of get_spacy_embeddings, and nothing is raised.
C17_DegenerateWeightsFallBack ==
    (/\ calc.op = "weighted_embeddings"
     /\ Len(calc.text) <= NlpMaxLength
     /\ ~HasValidWeights(calc.tfidf_vectorizer, calc.text)) =>
        /\ ~calc.training.raised
        /\ SameVector(calc.training, calc.plain)

\* C17, the first case alone: no vectorizable token.
C17_NoTokenFallsBack ==
    (/\ calc.op = "weighted_embeddings"
     /\ Len(calc.text) <= NlpMaxLength
     /\ VectorizableTokens(calc.text) = <<>>) =>
        /\ ~calc.training.raised
        /\ SameVector(calc.training, calc.plain)

\* C17, the second case alone: tokens to average over, all of weight zero.
C17_ZeroWeightsFallBack ==
    (/\ calc.op = "weighted_embeddings"
     /\ Len(calc.text) <= NlpMaxLength
     /\ VectorizableTokens(calc.text) # <<>>
     /\ ~HasValidWeights(calc.tfidf_vectorizer, calc.text)) =>
        /\ ~calc.training.raised
        /\ SameVector(calc.training, calc.plain)

\* ------------------------------------------------------------------ C20

\* C20 in full: in each of the training scripts a row without review text,
\* and a row without label, is removed before the split: it is not fitted
\* on, and the run does not stop on it either.
C20_MissingRowsRemoved ==
    (/\ calc.op = "clean_row"
     /\ (calc.row.text = Missing \/ calc.row.label = None)) =>
        /\ calc.retrain_models = "removed"
        /\ calc.train_models = "removed"
        /\ calc.train_model = "removed"

\* C20: in each of the training scripts, no row without review text
\* reaches the fitting of a vectorizer, scaler or classifier.
C20_MissingTextNotFitted ==
    (calc.op = "clean_row" /\ calc.row.text = Missing) =>
        /\ calc.retrain_models # "fitted"
        /\ calc.train_models # "fitted"
        /\ calc.train_model # "fitted"

\* ------------------------------------------------------------------ failing training runs

\* The training run dies while it saves (the disk is full, the process is
\* killed, a dump raises): nothing more is written, nothing is undone.
RetrainFails ==
    /\ saveIdx > 0
    /\ saveIdx' = 0
    /\ saveOpen' = FALSE
    /\ UNCHANGED <<disk, classifier, ret, everLoaded, runs, reqVars, auxVars>>

NextTrain ==
    \/ RetrainStartsSaving
    \/ JoblibDumpOpens
    \/ JoblibDumpCompletes
    \/ RetrainFails
    \/ SaveSpacyModelTxt
    \/ LoadMlModels
    \/ CallerProceeds

\* models/ is empty, or holds the complete bundle of an earlier run.
InitTrain == Init /\ disk \in {EmptyDisk, CompleteDisk(EarlierRun)}

SpecTrain == InitTrain /\ [][NextTrain]_vars

\* ------------------------------------------------------------------ C18

SavedArtifacts == {SaveOrder[i] : i \in 1..Len(SaveOrder)}

\* C18: when no training run is writing, the dumped artifacts under models/
\* are those of one run or all absent: never some of the latest run next to
\* older or missing ones.
C18_ArtifactWritesAtomic ==
    saveIdx = 0 => \A a, b \in SavedArtifacts : disk[a] = disk[b]

\* ------------------------------------------------------------------ C19

\* What one complete run of retrain_models.py leaves in an empty models/.
RetrainOutput(r) == [a \in Artifacts |-> IF a \in SavedArtifacts THEN r ELSE 0]

\* C19: when models/ holds exactly what one complete training run wrote
\* into an empty directory, the files there are the files load_models reads
\* and load_models succeeds on them.
C19_TrainingOutputLoads ==
    (runs > 0 /\ saveIdx = 0 /\ disk = RetrainOutput(EarlierRun + runs)) =>
        /\ {a \in Artifacts : disk[a] # 0} = Artifacts
        /\ LoadReturns(disk)

\* ------------------------------------------------------------------ web application
\* src/src/app/routes (main.py, auth.py, api.py), src/src/utils/auth.py and
\* src/src/utils/helpers.py: one browser session, one registered user, one
\* product.  A request is one atomic step; resp is its response.

MaxSubmits == 2

\* request.form.get(key) of a field the form does not carry.
NoField == "None"

\* user_override = None.
NoOverride == [none |-> TRUE]

\* Python's truth value of a form field.
Falsy(field) == field \in {NoField, ""}

\* hashlib.sha256(password.encode()).hexdigest(): injective on the inputs.
hash_password(password) == <<"sha256", password>>

verify_password(password, hashed) == hash_password(password) = hashed

\* len(password)
PasswordLen ==
    [p \in {"", "short", "secret1", "secret2", "wrong"} |->
        CASE p = "" -> 0
          [] p = "short" -> 5
          [] p \in {"secret1", "secret2"} -> 7
          [] OTHER -> 5]

TheUser == [email |-> "u@x", name |-> "n1", password |-> hash_password("secret1")]

TheProduct == 1

\* users_collection.find_one({'email': email}): the _id, 0 for None.
FindByEmail(us, email) ==
    IF \E i \in 1..Len(us) : us[i].email = email
    THEN CHOOSE i \in 1..Len(us) :
            /\ us[i].email = email
            /\ \A j \in 1..(i - 1) : us[j].email # email
    ELSE 0

\* The test the login_required decorator makes on the session.
login_required_always(s) == TRUE

login_required(s) == s.user_id # 0

Redirect(route, location) ==
    [route |-> route, status |-> 302, location |-> location]

Rendered(route) ==
    [route |-> route, status |-> 200, location |-> ""]

ProtectedRoutes ==
    {"profile", "submit_review", "review_confirmation", "confirm_review",
     "update_profile", "profile_update"}

\* What the decorator answers when the session has no user_id.
Refused(route) == Redirect(route, "auth.login")

\* Everything outside the web application.
offWeb == <<disk, ret, envVars, reqVars, firstCall, calc, regs, run>>
modelVars == <<classifier, everLoaded>>

\* ---- auth.py

LoginEmails == {"u@x", "v@x"}
LoginPasswords == {"secret1", "secret2", "wrong"}

\* POST /login
Login ==
    /\ resp = NoResponse
    /\ \E email \in LoginEmails, password \in LoginPasswords :
        LET user == FindByEmail(users, email)
        IN /\ IF user # 0 /\ verify_password(password, users[user].password)
              THEN /\ session' = [session EXCEPT !.user_id = user,
                                                 !.user_name = users[user].name,
                                                 !.user_email = users[user].email]
                   /\ resp' = Redirect("login", "main.index")
              ELSE /\ resp' = Rendered("login")
                   /\ UNCHANGED session
           /\ UNCHANGED <<users, reviews, accepted, modelVars, offWeb>>

\* GET /logout
Logout ==
    /\ resp = NoResponse
    /\ session' = EmptySession
    /\ resp' = Redirect("logout", "main.index")
    /\ UNCHANGED <<users, reviews, accepted, modelVars, offWeb>>

ProfileNames == {"", "n2"}
CurrentPasswords == {"", "secret1", "wrong"}
NewPasswords == {"", "short", "secret2"}

\* The password checks both update routes make, in their order: the flash
\* message of the first one that fails, "" when all pass.
PasswordError(user, current_password, new_password, confirm_password) ==
    IF current_password = "" THEN "Current password is required"
    ELSE IF ~verify_password(current_password, user.password)
         THEN "Current password is incorrect"
    ELSE IF new_password # confirm_password THEN "New passwords do not match"
    ELSE IF PasswordLen[new_password] < 6 THEN "New password too short"
    ELSE ""

ProfileResponse(route, error) ==
    [route |-> route, status |-> 302, location |-> "main.profile", error |-> error]

\* POST /profile/update (auth.update_profile)
ProfileUpdate ==
    /\ resp = NoResponse
    /\ \E name \in ProfileNames, current_password \in CurrentPasswords,
       new_password \in NewPasswords, confirm_password \in NewPasswords :
        /\ UNCHANGED <<reviews, accepted, modelVars, offWeb>>
        /\ IF ~login_required(session)
           THEN /\ resp' = Refused("profile_update")
                /\ UNCHANGED <<session, users>>
           ELSE LET id == session.user_id
                    user == users[id]
                    error == PasswordError(user, current_password,
                                           new_password, confirm_password)
                    named == [users EXCEPT ![id].name = name]
                IN IF name = ""
                   THEN /\ resp' = ProfileResponse("profile_update", "Name is required")
                        /\ UNCHANGED <<session, users>>
                   ELSE /\ session' = [session EXCEPT !.user_name = name]
                        /\ IF new_password # "" /\ error # ""
                           THEN /\ users' = named
                                /\ resp' = ProfileResponse("profile_update", error)
                           ELSE /\ users' =
                                     IF new_password # ""
                                     THEN [named EXCEPT ![id].password =
                                                  hash_password(new_password)]
                                     ELSE named
                                /\ resp' = ProfileResponse("profile_update", "")

\* ---- main.py

\* POST /update_profile (main.update_profile)
UpdateProfile ==
    /\ resp = NoResponse
    /\ \E name \in ProfileNames, current_password \in CurrentPasswords,
       new_password \in NewPasswords, confirm_password \in NewPasswords :
        /\ UNCHANGED <<session, reviews, accepted, modelVars, offWeb>>
        /\ IF ~login_required(session)
           THEN /\ resp' = Refused("update_profile")
                /\ UNCHANGED users
           ELSE LET id == session.user_id
                    user == users[id]
                    error == PasswordError(user, current_password,
                                           new_password, confirm_password)
                IN IF name = ""
                   THEN /\ resp' = ProfileResponse("update_profile", "Name is required")
                        /\ UNCHANGED users
                   ELSE IF new_password # "" /\ error # ""
                   THEN /\ resp' = ProfileResponse("update_profile", error)
                        /\ UNCHANGED users
                   ELSE /\ users' =
                             [users EXCEPT
                                ![id].name = name,
                                ![id].password =
                                    IF new_password # ""
                                    THEN hash_password(new_password) ELSE @]
                        /\ resp' = ProfileResponse("update_profile", "")

\* GET /profile
Profile ==
    /\ resp = NoResponse
    /\ resp' = IF ~login_required(session) THEN Refused("profile")
               ELSE [route |-> "profile", status |-> 200, location |-> "",
                     user |-> users[session.user_id]]
    /\ UNCHANGED <<session, users, reviews, accepted, modelVars, offWeb>>

\* ---- main.py, the review workflow

RatingFields == {NoField, "0", "5", "x"}

\* int(rating): the digits the forms of the model send; None for ValueError.
IntOf(field) ==
    CASE field = "0" -> 0
      [] field = "5" -> 5
      [] OTHER -> None

\* review_text fields of the review form and of the API.
FormTexts == {<<" ">>, <<"a">>}
ApiTexts == FormTexts \cup {<<>>, <<"1">>, <<"a", "B">>}

\* GET /product/<clothing_id>: sorted by created_at, newest first.
Reverse(s) == [i \in 1..Len(s) |-> s[Len(s) + 1 - i]]

ProductDetail ==
    /\ resp = NoResponse
    /\ resp' = [route |-> "product_detail", status |-> 200, location |-> "",
                review_stats |-> get_review_stats(reviews),
                recommended_reviews |->
                    SelectSeq(Reverse(reviews), LAMBDA r : DecisionOf(r) = 1),
                not_recommended_reviews |->
                    SelectSeq(Reverse(reviews), LAMBDA r : DecisionOf(r) # 1)]
    /\ UNCHANGED <<session, users, reviews, accepted, modelVars, offWeb>>

\* POST /submit_review/<clothing_id>
SubmitReview ==
    /\ resp = NoResponse
    /\ accepted < MaxSubmits
    /\ \E rating \in RatingFields, form_text \in FormTexts :
        LET title == <<>>
            text == Strip(form_text)
        IN /\ UNCHANGED <<users, reviews, offWeb>>
           /\ IF ~login_required(session)
              THEN /\ resp' = Refused("submit_review")
                   /\ UNCHANGED <<session, accepted, modelVars>>
              ELSE IF Falsy(rating) \/ text = <<>>
              THEN /\ resp' = Redirect("submit_review", "main.product_detail")
                   /\ UNCHANGED <<session, accepted, modelVars>>
              ELSE IF IntOf(rating) = None \/ IntOf(rating) < 1 \/ IntOf(rating) > 5
              THEN /\ resp' = Redirect("submit_review", "main.product_detail")
                   /\ UNCHANGED <<session, accepted, modelVars>>
              ELSE LET user == users[session.user_id]
                       result == PredictSingle(EnsuredClassifier(classifier, disk),
                                               text, title)
                   IN /\ classifier' = EnsuredClassifier(classifier, disk)
                      /\ everLoaded' = (everLoaded \/
                             (~classifier.models_loaded /\ LoadReturns(disk)))
                      /\ session' =
                           [session EXCEPT !.pending_review =
                              [clothing_id |-> TheProduct,
                               user_id |-> session.user_id,
                               user_name |-> user.name,
                               rating |-> IntOf(rating),
                               title |-> title,
                               text |-> text,
                               ml_prediction |-> result.prediction,
                               ml_confidence |-> result.confidence,
                               ml_details |-> result.details]]
                      /\ accepted' = accepted + 1
                      /\ resp' = Redirect("submit_review", "main.review_confirmation")

\* GET /review_confirmation
ReviewConfirmation ==
    /\ resp = NoResponse
    /\ resp' = IF ~login_required(session) THEN Refused("review_confirmation")
               ELSE IF session.pending_review = NoPending
               THEN Redirect("review_confirmation", "main.index")
               ELSE [route |-> "review_confirmation", status |-> 200,
                     location |-> "", review_data |-> session.pending_review]
    /\ UNCHANGED <<session, users, reviews, accepted, modelVars, offWeb>>

DecisionFields == {NoField, "accept", "override", "maybe"}
OverrideFields == {NoField, "recommended", "not_recommended"}

\* The review confirm_review builds from the pending review and the form.
ConfirmedReview(review_data, user_decision, override_decision) ==
    LET final_decision ==
            IF user_decision = "accept" THEN review_data.ml_prediction
            ELSE IF override_decision = "recommended" THEN 1 ELSE 0
        user_override ==
            IF user_decision = "accept" THEN NoOverride
            ELSE [original_prediction |-> review_data.ml_prediction,
                  user_decision |-> final_decision,
                  reason |-> ""]
    IN [user_id |-> review_data.user_id,
        user_name |-> review_data.user_name,
        rating |-> review_data.rating,
        title |-> review_data.title,
        text |-> review_data.text,
        ml_prediction |-> review_data.ml_prediction,
        ml_confidence |-> review_data.ml_confidence,
        ml_details |-> review_data.ml_details,
        user_override |-> user_override,
        final_decision |-> final_decision]

\* session.pop('pending_review', None)
PopPendingKept(s) == s

PopPending(s) == [s EXCEPT !.pending_review = NoPending]

ConfirmResponse(location, user_decision, override_decision) ==
    [route |-> "confirm_review", status |-> 302, location |-> location,
     decision |-> user_decision, override_decision |-> override_decision]

\* POST /confirm_review
ConfirmReview ==
    /\ resp = NoResponse
    /\ \E user_decision \in DecisionFields, override_decision \in OverrideFields :
        /\ UNCHANGED <<users, accepted, modelVars, offWeb>>
        /\ IF ~login_required(session)
           THEN /\ resp' = Refused("confirm_review")
                /\ UNCHANGED <<session, reviews>>
           ELSE IF session.pending_review = NoPending
           THEN /\ resp' = ConfirmResponse("main.index", user_decision,
                                           override_decision)
                /\ UNCHANGED <<session, reviews>>
           ELSE IF user_decision = "override" /\ Falsy(override_decision)
           THEN /\ resp' = ConfirmResponse("main.review_confirmation",
                                           user_decision, override_decision)
                /\ UNCHANGED <<session, reviews>>
           ELSE /\ reviews' = Append(reviews,
                        ConfirmedReview(session.pending_review, user_decision,
                                        override_decision))
                /\ session' = PopPending(session)
                /\ resp' = ConfirmResponse("main.product_detail", user_decision,
                                           override_decision)

\* ---- api.py

\* The JSON body of a successful /api/predict_review.
PredictResponseBody(prediction, confidence, ml_details) ==
    [prediction |-> prediction,
     confidence |-> confidence,
     label |-> IF prediction = 1 THEN "Recommended" ELSE "Not Recommended",
     details |->
        [individual_results |-> Get(ml_details, "individual_results"),
         consensus |-> Get(ml_details, "consensus"),
         ensemble_prediction |-> Get(ml_details, "ensemble_prediction"),
         ensemble_confidence |-> Get(ml_details, "ensemble_confidence"),
         ensemble_label |-> Get(ml_details, "ensemble_label")]]

JsonError(route, status, error) ==
    [route |-> route, status |-> status, location |-> "", body |-> [error |-> error]]

\* POST /api/predict_review
ApiPredictReview ==
    /\ resp = NoResponse
    /\ \E form_text \in ApiTexts, form_title \in Titles :
        LET review_text == Strip(form_text)
            title == Strip(form_title)
            result == PredictSingle(EnsuredClassifier(classifier, disk),
                                    review_text, title)
        IN /\ UNCHANGED <<session, users, reviews, accepted, offWeb>>
           /\ IF review_text = <<>>
              THEN /\ resp' = JsonError("api_predict_review", 400,
                                        "Review text is required")
                   /\ UNCHANGED modelVars
              ELSE /\ classifier' = EnsuredClassifier(classifier, disk)
                   /\ everLoaded' = (everLoaded \/
                          (~classifier.models_loaded /\ LoadReturns(disk)))
                   /\ resp' =
                        IF result.prediction = None
                        THEN JsonError("api_predict_review", 500,
                                       "Error processing review")
                        ELSE [route |-> "api_predict_review", status |-> 200,
                              location |-> "",
                              result |-> Returned(result),
                              body |-> PredictResponseBody(result.prediction,
                                          result.confidence, result.details)]

\* Counter(rating_distribution): rating -> count, as the set of its items.
RatingCounts(rs) ==
    {[_id |-> rating, count |-> Cardinality({i \in 1..Len(rs) : rs[i].rating = rating})] :
        rating \in {rs[i].rating : i \in 1..Len(rs)}}

\* GET /api/stats
ApiStats ==
    /\ resp = NoResponse
    /\ resp' = [route |-> "api_stats", status |-> 200, location |-> "",
                body |-> [total_products |-> 1,
                          total_reviews |-> Len(reviews),
                          categories |-> {"Dresses"},
                          rating_distribution |-> RatingCounts(reviews)]]
    /\ UNCHANGED <<session, users, reviews, accepted, modelVars, offWeb>>

\* The browser has received the response and sends its next request.
BrowserProceeds ==
    /\ resp # NoResponse
    /\ resp' = NoResponse
    /\ UNCHANGED <<session, users, reviews, accepted, modelVars, offWeb>>

NextWeb ==
    \/ Login
    \/ Logout
    \/ ProfileUpdate
    \/ UpdateProfile
    \/ Profile
    \/ ProductDetail
    \/ SubmitReview
    \/ ReviewConfirmation
    \/ ConfirmReview
    \/ ApiPredictReview
    \/ ApiStats
    \/ BrowserProceeds

\* The server with the classifier module imported and the user registered.
InitWeb ==
    /\ disk \in {EmptyDisk, CompleteDisk(EarlierRun)}
    /\ classifier = LoadedClassifier(NewClassifier, disk)
    /\ everLoaded = LoadReturns(disk)
    /\ ret = NoCall
    /\ runs = 0
    /\ saveIdx = 0
    /\ saveOpen = FALSE
    /\ thread = [t \in {MainThread} \cup Threads |-> IdleThread]
    /\ firstCall = NoCall
    /\ calc = NoCall
    /\ session = EmptySession
    /\ users = <<TheUser>>
    /\ reviews = <<>>
    /\ resp = NoResponse
    /\ accepted = 0
    /\ regs = [t \in Threads |-> IdleRegister]
    /\ run = NoRun

SpecWeb == InitWeb /\ [][NextWeb]_vars

\* ------------------------------------------------------------------ C21

IndividualModels == {"logistic_regression", "random_forest", "svm"}

DetailFields ==
    {"individual_results", "consensus", "ensemble_prediction",
     "ensemble_confidence", "ensemble_label"}

\* C21: whenever predict_single returns a prediction, the prediction is 0 or
\* 1, details carries individual_results, consensus, ensemble_prediction,
\* ensemble_confidence and ensemble_label, the ensemble fields of details
\* equal the returned prediction and confidence, every label is
\* 'Recommended' exactly when its prediction is 1, and the body of the
\* /api/predict_review response built from the result carries the same
\* prediction and confidence and a label that matches the prediction.
C21_ResultTripleConsistent ==
    (resp.route = "api_predict_review" /\ resp.status # 400) =>
        IF resp.status = 500 THEN "result" \notin DOMAIN resp
        ELSE LET r == resp.result
                 d == r.details
                 b == resp.body
             IN /\ resp.status = 200
                /\ r.prediction \in {0, 1}
                /\ DetailFields \subseteq DOMAIN d
                /\ DOMAIN d.individual_results = IndividualModels
                /\ d.ensemble_prediction = r.prediction
                /\ d.ensemble_confidence = r.confidence
                /\ (d.ensemble_label = "Recommended") <=> (r.prediction = 1)
                /\ \A m \in IndividualModels :
                      /\ d.individual_results[m].prediction \in {0, 1}
                      /\ (d.individual_results[m].label = "Recommended")
                            <=> (d.individual_results[m].prediction = 1)
                /\ b.prediction = r.prediction
                /\ b.confidence = r.confidence
                /\ (b.label = "Recommended") <=> (r.prediction = 1)
                /\ b.details = d

\* A response for a review voted not recommended with one model dissenting.
C21_Witness ==
    /\ resp.route = "api_predict_review"
    /\ resp.status = 200
    /\ resp.body.prediction = 0
    /\ resp.body.label = "Not Recommended"
    /\ \E m \in IndividualModels :
          resp.result.details.individual_results[m].label = "Recommended"

C21_WitnessRecommended ==
    /\ resp.route = "api_predict_review"
    /\ resp.status = 200
    /\ resp.body.prediction = 1

\* ------------------------------------------------------------------ C22

\* C22: a successful GET /api/stats answers 200 with a JSON object that has
\* the fields total_products, total_reviews and average_rating.
C22_StatsHasAverageRating ==
    (resp.route = "api_stats" /\ resp.status = 200) =>
        {"total_products", "total_reviews", "average_rating"} \subseteq DOMAIN resp.body

\* ------------------------------------------------------------------ C23

\* Recommended as the statistics define it: final_decision 1, or no
\* final_decision (absent or None) and ml_prediction 1.
CountsAsRecommended(review) ==
    \/ Get(review, "final_decision") = 1
    \/ /\ Get(review, "final_decision") = None
       /\ Get(review, "ml_prediction") = 1

\* C23: for every list of reviews get_review_stats returns total_reviews
\* equal to the length of the list, average_rating equal to
\* calculate_average_rating of the list (0.0 for the empty list, otherwise a
\* tenth nearest to the mean of the ratings), and recommended_count +
\* not_recommended_count equal to total_reviews, with recommended_count the
\* number of reviews whose final_decision is 1, or is absent with
\* ml_prediction 1.
C23_ReviewStats ==
    calc.op = "get_review_stats" =>
        LET rs == calc.reviews
            v == calc.value
            n == Len(rs)
            off == v.average_rating * n - 10 * SumRatings(rs)
        IN /\ v.total_reviews = n
           /\ v.average_rating = calculate_average_rating(rs)
           /\ n = 0 => v.average_rating = 0
           /\ n > 0 => (2 * off <= n /\ -2 * off <= n)
           /\ v.recommended_count + v.not_recommended_count = v.total_reviews
           /\ v.recommended_count =
                 Cardinality({i \in 1..n : CountsAsRecommended(rs[i])})

\* Two reviews of 2 and 5 stars: one overridden to not recommended against
\* an ml_prediction of 1, one without final_decision and ml_prediction 1.
C23_Witness ==
    /\ calc.op = "get_review_stats"
    /\ calc.reviews = << [rating |-> 2, ml_prediction |-> 1, final_decision |-> 0],
                         [rating |-> 5, ml_prediction |-> 1] >>
    /\ calc.value.total_reviews = 2
    /\ calc.value.average_rating = 35
    /\ calc.value.recommended_count = 1
    /\ calc.value.not_recommended_count = 1

\* ------------------------------------------------------------------ training runs, statement by statement
\* main() of src/retrain_models.py and train_models() of
\* src/src/models/train_models.py as the sequence of the statements that
\* load, fit, train, evaluate and write, in the order of the source text.

Step(stage, what) == [stage |-> stage, what |-> what]

Classifiers == <<"lr_model", "rf_model", "svm_model">>

\* Both scripts up to the last fit of a classifier.
FittingSteps ==
    << Step("load_corpus", "data-assignment3_II.csv"),
       Step("preprocess", "df"),
       Step("split", "train_test_split"),
       Step("fit_extractors", "bow_vectorizer"),
       Step("fit_extractors", "tfidf_vectorizer"),
       Step("fit_scalers", "scaler_embeddings"),
       Step("fit_scalers", "scaler_weighted"),
       Step("train", "lr_model"),
       Step("train", "rf_model"),
       Step("train", "svm_model") >>

EvaluateStep(i) == Step("evaluate", Classifiers[i])

\* The save block of retrain_models.py: one joblib.dump per artifact.
RetrainSaveBlock == [i \in 1..Len(SaveOrder) |-> Step("persist", SaveOrder[i])]

\* The save block of train_models.py: the same dumps, then spacy_model.txt.
TrainModelsSaveBlock == RetrainSaveBlock \o <<Step("persist", "spacy_model.txt")>>

\* retrain_models.py evaluates the three classifiers, then saves.
RetrainProgram ==
    FittingSteps \o [i \in 1..Len(Classifiers) |-> EvaluateStep(i)] \o RetrainSaveBlock

\* train_models.py: the save block stands in the body of the loop over the
\* classifiers being evaluated.
TrainModelsProgram ==
    FittingSteps
        \o <<EvaluateStep(1)>> \o TrainModelsSaveBlock
        \o <<EvaluateStep(2)>> \o TrainModelsSaveBlock
        \o <<EvaluateStep(3)>> \o TrainModelsSaveBlock

Scripts == {"retrain_models", "train_models"}

Program(script) ==
    IF script = "retrain_models" THEN RetrainProgram ELSE TrainModelsProgram

WrittenFiles == {TrainModelsSaveBlock[i].what : i \in 1..Len(TrainModelsSaveBlock)}

\* The script is started.
StartTraining ==
    /\ run = NoRun
    /\ \E script \in Scripts :
        run' = [script |-> script, status |-> "running", pc |-> 1,
                stages |-> <<>>, trained |-> {}, evaluated |-> {},
                written |-> [f \in WrittenFiles |-> 0],
                early |-> {}]
    /\ UNCHANGED <<disk, classifier, ret, everLoaded, envVars, reqVars, firstCall,
                   calc, session, users, reviews, resp, accepted, regs>>

\* The run after its next statement.  stages lists the stages in the order
\* the run entered them; early collects the files written while a
\* classifier was not yet trained or evaluated.
AfterStep(r, step) ==
    LET finished == r.pc = Len(Program(r.script))
    IN [r EXCEPT
          !.pc = @ + 1,
          !.status = IF finished THEN "done" ELSE "running",
          !.stages = IF @ # <<>> /\ @[Len(@)] = step.stage THEN @
                     ELSE Append(@, step.stage),
          !.trained = IF step.stage = "train" THEN @ \cup {step.what} ELSE @,
          !.evaluated = IF step.stage = "evaluate" THEN @ \cup {step.what} ELSE @,
          !.written = IF step.stage = "persist"
                      THEN [@ EXCEPT ![step.what] = @ + 1] ELSE @,
          !.early = IF /\ step.stage = "persist"
                       /\ \E i \in 1..Len(Classifiers) :
                             \/ Classifiers[i] \notin r.trained
                             \/ Classifiers[i] \notin r.evaluated
                    THEN @ \cup {step.what} ELSE @]

\* The next statement of the script runs to its end.
StageStep ==
    /\ run # NoRun
    /\ run.status = "running"
    /\ run' = AfterStep(run, Program(run.script)[run.pc])
    /\ UNCHANGED <<disk, classifier, ret, everLoaded, envVars, reqVars, firstCall,
                   calc, session, users, reviews, resp, accepted, regs>>

\* The next statement raises: main() lets the exception through,
\* train_models() logs it and raises it again.
TrainingFails ==
    /\ run # NoRun
    /\ run.status = "running"
    /\ run' = [run EXCEPT !.status = "failed"]
    /\ UNCHANGED <<disk, classifier, ret, everLoaded, envVars, reqVars, firstCall,
                   calc, session, users, reviews, resp, accepted, regs>>

\* The process of the script has exited.
TrainingExits ==
    /\ run # NoRun
    /\ run.status \in {"done", "failed"}
    /\ run' = NoRun
    /\ UNCHANGED <<disk, classifier, ret, everLoaded, envVars, reqVars, firstCall,
                   calc, session, users, reviews, resp, accepted, regs>>

NextStages ==
    \/ StartTraining
    \/ StageStep
    \/ TrainingFails
    \/ TrainingExits

InitStages == Init /\ disk = EmptyDisk

SpecStages == InitStages /\ [][NextStages]_vars

\* ------------------------------------------------------------------ C24

StageOrder ==
    << "load_corpus", "preprocess", "split", "fit_extractors", "fit_scalers",
       "train", "evaluate", "persist" >>

StageRank(stage) == CHOOSE i \in 1..Len(StageOrder) : StageOrder[i] = stage

\* The stages entered so far are in the order of StageOrder, none twice.
InStageOrder(r) ==
    \A i, j \in 1..Len(r.stages) :
        i < j => StageRank(r.stages[i]) < StageRank(r.stages[j])

C24_RetrainModelsConforms ==
    (run # NoRun /\ run.script = "retrain_models") =>
        /\ InStageOrder(run)
        /\ run.early = {}
        /\ \A f \in WrittenFiles : run.written[f] <= 1

C24_RetrainModelsDone ==
    /\ run # NoRun
    /\ run.script = "retrain_models"
    /\ run.status = "done"
    /\ \A i \in 1..Len(SaveOrder) : run.written[SaveOrder[i]] = 1

\* ------------------------------------------------------------------ C25

\* A request has just been answered by the route.
Answered(route) == resp = NoResponse /\ resp' # NoResponse /\ resp'.route = route

C26_PersistedOnlyFromPending ==
    [][ /\ reviews' # reviews =>
             /\ Answered("confirm_review")
             /\ session.pending_review # NoPending
             /\ Len(reviews') = Len(reviews) + 1
             /\ SubSeq(reviews', 1, Len(reviews)) = reviews
             /\ reviews'[Len(reviews')].text = session.pending_review.text
             /\ reviews'[Len(reviews')].rating = session.pending_review.rating
             /\ reviews'[Len(reviews')].ml_prediction =
                    session.pending_review.ml_prediction
             /\ session'.pending_review = NoPending
        /\ (Answered("confirm_review") /\ session.pending_review = NoPending) =>
             reviews' = reviews
        /\ (session'.pending_review # session.pending_review
                /\ session'.pending_review # NoPending) =>
             /\ Answered("submit_review")
             /\ accepted' = accepted + 1
        /\ Len(reviews') <= accepted'
      ]_vars

\* Two accepted submits, the second replacing the first pending review; one
\* confirm persisted, a further confirm found nothing pending.
C26_Witness ==
    /\ accepted = 2
    /\ Len(reviews) = 1
    /\ session.user_id # 0
    /\ session.pending_review = NoPending
    /\ resp.route = "confirm_review"
    /\ resp.location = "main.index"

\* ------------------------------------------------------------------ C27

\* The review the request has just appended is the one the claim describes
\* for the decision of the form.
PersistedAsDecided ==
    LET review == reviews'[Len(reviews')]
        pending == session.pending_review
    IN \/ /\ resp'.decision = "accept"
          /\ review.final_decision = pending.ml_prediction
          /\ review.user_override = NoOverride
       \/ /\ resp'.decision = "override"
          /\ ~Falsy(resp'.override_decision)
          /\ (review.final_decision = 1) <=> (resp'.override_decision = "recommended")
          /\ review.final_decision \in {0, 1}
          /\ review.user_override.original_prediction = pending.ml_prediction

\* C27: confirm_review persists a review only for decision 'accept' or for
\* decision 'override' with an override_decision selected; on 'accept'
\* final_decision is the pending ml_prediction and user_override is empty,
\* on 'override' final_decision is 1 exactly when override_decision is
\* 'recommended' and user_override records the original prediction; a
\* request with a missing or unknown decision persists nothing.
C27_PersistsOnlyOnValidDecision ==
    [][ reviews' # reviews => PersistedAsDecided ]_vars

\* The same for the requests whose decision is 'accept' or 'override'.
C27_AcceptAndOverrideAsStated ==
    [][ (reviews' # reviews /\ resp'.decision \in {"accept", "override"})
            => PersistedAsDecided ]_vars

\* A form without a decision field has persisted a review as an override.
C27_MissingDecisionPersisted ==
    /\ resp.route = "confirm_review"
    /\ resp.location = "main.product_detail"
    /\ resp.decision = NoField
    /\ resp.location = "main.product_detail"
    /\ Len(reviews) = 1
    /\ reviews[1].final_decision = 0
    /\ reviews[1].user_override # NoOverride

\* ------------------------------------------------------------------ C28

\* C28: a review for which the classifier produced no prediction is never
\* displayed or counted as not recommended in place of the missing
\* prediction: what product_detail lists under not recommended, and what
\* get_review_stats counts as not recommended, are the reviews whose
\* decision is 0.
C28_NoPredictionIsNoDecision ==
    resp.route = "product_detail" =>
        /\ \A i \in 1..Len(resp.not_recommended_reviews) :
              DecisionOf(resp.not_recommended_reviews[i]) = 0
        /\ resp.review_stats.not_recommended_count =
              Cardinality({i \in 1..Len(reviews) : DecisionOf(reviews[i]) = 0})

\* A review without prediction, accepted as it is, listed and counted as
\* not recommended.
C28_AcceptedWithoutPredictionShown ==
    /\ resp.route = "product_detail"
    /\ Len(reviews) = 1
    /\ reviews[1].ml_prediction = None
    /\ reviews[1].final_decision = None
    /\ reviews[1].user_override = NoOverride
    /\ resp.not_recommended_reviews = reviews
    /\ resp.review_stats.not_recommended_count = 1

\* ------------------------------------------------------------------ C30

\* The request to the route has just been rejected with an error message.
Rejected(route) ==
    /\ Answered(route)
    /\ "error" \in DOMAIN resp'
    /\ resp'.error # ""

\* C30: a profile update that is rejected with an error (missing name,
\* missing or wrong current password, mismatching new passwords, new
\* password shorter than 6 characters) leaves the stored name and password
\* of the user and the session's user_name unchanged, on /update_profile
\* and on /profile/update.
C30_RejectedUpdateChangesNothing ==
    [][ (Rejected("update_profile") \/ Rejected("profile_update")) =>
            UNCHANGED <<users, session>> ]_vars

\* The same for /update_profile (main.update_profile) alone.
C30_UpdateProfileConforms ==
    [][ Rejected("update_profile") => UNCHANGED <<users, session>> ]_vars

\* /profile/update has renamed the user and answered with a password error.
C30_RenamedThoughRejected ==
    /\ resp.route = "profile_update"
    /\ "error" \in DOMAIN resp
    /\ resp.error = "Current password is incorrect"
    /\ users[1].name = "n2"
    /\ session.user_name = "n2"
    /\ users[1].password = hash_password("secret1")

\* ------------------------------------------------------------------ concurrent registration
\* POST /register (auth.register) served by the threads of the server: each
\* request validates its form, looks the email up, and inserts.

MaxUsers == 3

RegisterEmails == {"u@x", "v@x"}
RegisterPasswords == {"short", "secret1"}

regOff ==
    <<disk, classifier, ret, everLoaded, envVars, reqVars, firstCall, calc,
      session, reviews, resp, accepted, run>>

\* The request arrives and its form is validated.
RegisterStarts(t) ==
    /\ regs[t].pc = "idle"
    /\ Len(users) < MaxUsers
    /\ \E email \in RegisterEmails, password \in RegisterPasswords :
        regs' = [regs EXCEPT ![t] =
                    IF PasswordLen[password] < 6
                    THEN [pc |-> "done", email |-> email, found |-> FALSE,
                          flash |-> "Password must be at least 6 characters long."]
                    ELSE [pc |-> "find_one", email |-> email, found |-> FALSE,
                          flash |-> ""]]
    /\ UNCHANGED <<users, regOff>>

\* users_collection.find_one({'email': email})
RegisterChecks(t) ==
    /\ regs[t].pc = "find_one"
    /\ regs' = [regs EXCEPT ![t] =
                    IF FindByEmail(users, regs[t].email) # 0
                    THEN [@ EXCEPT !.pc = "done", !.found = TRUE,
                                   !.flash = "Email already registered."]
                    ELSE [@ EXCEPT !.pc = "insert_one"]]
    /\ UNCHANGED <<users, regOff>>

\* users_collection.insert_one(user_data)
RegisterInserts(t) ==
    /\ regs[t].pc = "insert_one"
    /\ users' = Append(users, [email |-> regs[t].email, name |-> "n1",
                               password |-> hash_password("secret1")])
    /\ regs' = [regs EXCEPT ![t].pc = "done",
                            ![t].flash = "Registration successful! Please log in."]
    /\ UNCHANGED regOff

\* The response is sent; the thread takes the next request.
RegisterEnds(t) ==
    /\ regs[t].pc = "done"
    /\ regs' = [regs EXCEPT ![t] = IdleRegister]
    /\ UNCHANGED <<users, regOff>>

NextRegister ==
    \/ \E t \in Threads : RegisterStarts(t)
    \/ \E t \in Threads : RegisterChecks(t)
    \/ \E t \in Threads : RegisterInserts(t)
    \/ \E t \in Threads : RegisterEnds(t)

InitRegister == Init /\ disk = EmptyDisk

SpecRegister == InitRegister /\ [][NextRegister]_vars

\* ------------------------------------------------------------------ C29

\* C29: under any interleaving of concurrent register requests the users
\* collection never holds two users with the same email.
C29_NoDuplicateEmail ==
    \A i, j \in 1..Len(users) :
        i # j => users[i].email # users[j].email

\* Requests that do not overlap keep the emails distinct: a request that
\* finds the email registered inserts nothing.
C29_FoundInsertsNothing ==
    [][ \A t \in Threads :
          (regs[t].pc = "find_one" /\ regs'[t].pc = "done") =>
              /\ users' = users
              /\ FindByEmail(users, regs[t].email) # 0 ]_vars

\* Two requests for one email both passed find_one before either inserted.
C29_BothPassedTheCheck ==
    /\ regs[1].pc = "insert_one"
    /\ regs[2].pc = "insert_one"
    /\ regs[1].email = regs[2].email
====
